---- MODULE Spec2Model ----
(***************************************************************************)
(* Model of the treehouse shop scraper.                                    *)
(*                                                                         *)
(*   Spec        one run of ShopExtractionStrategy.extract over a document *)
(*               (extraction.py) followed by the ShopData validation       *)
(*               (models.py).                                              *)
(*   SpecCoerce  the number-from-text coercions _parse_price and           *)
(*               _parse_reviews_count applied to every short text.         *)
(*   SpecHarness one run of the selector harness over a parsed page        *)
(*               (verify_selectors.py): validate_selector entry by entry,  *)
(*               then the ValidationReport.                                *)
(*   SpecTasks   several calls of extract running interleaved.             *)
(*   SpecMain    the harness's main loop over the discovered URLs, with    *)
(*               its statistics (verify_selectors.py main).                *)
(*   SpecScrape  scrape_shop_urls over listing pages (maplinkscrape.py);   *)
(*               SpecScrapeFair adds that every started pass completes.    *)
(*   SpecMapLinks the map-link scraper's loop over the shop URLs and its   *)
(*               browser contexts (maplinkscrape.py main).                 *)
(*                                                                         *)
(* Texts are sequences of one-character strings, so that strip(), split(), *)
(* filter(str.isdigit, ..), int() and float() are computed, not assumed.   *)
(* An optional value is a sequence of length 0 (None / key absent) or 1.   *)
(* A float is [mant, dec], the decimal mant * 10^-dec without trailing     *)
(* zeros, so equal numbers have equal representations.                     *)
(***************************************************************************)
EXTENDS Integers, Sequences, FiniteSets, TLC

VARIABLES doc, pc, shop_data, record, violations, text, number,
          soup, entry, result, results, report, evaluated,
          tasks, frames, heap,
          urls, url_index, total_stats, printed, saved,
          limit, page, loads, shop_urls, first_seen, returned,
          map_urls, map_index, contexts, browser, map_results

\* the state of one extraction and of the coercions
run_vars == <<doc, shop_data, record, violations, text, number>>

\* the state of the selector harness
harness_vars == <<soup, entry, result, results, report, evaluated>>

\* the state of concurrent extractions
task_vars == <<tasks, frames, heap>>

\* the state of the harness's main loop over the discovered URLs
main_vars == <<urls, url_index, total_stats, printed, saved>>

\* the state of scrape_shop_urls
scrape_vars == <<limit, page, loads, shop_urls, first_seen, returned>>

\* the state of the map-link scraper's main loop
maplink_vars == <<map_urls, map_index, contexts, browser, map_results>>

crawl_vars == <<main_vars, scrape_vars, maplink_vars>>

vars == <<pc, run_vars, harness_vars, task_vars, crawl_vars>>

(***************************************************************************)
(* Bounds.                                                                 *)
(***************************************************************************)
MaxItems == 3

MaxLen == 5

(***************************************************************************)
(* Text primitives.                                                        *)
(***************************************************************************)
None == <<>>

Some(v) == <<v>>

DIGITS == <<"0", "1", "2", "3", "4", "5", "6", "7", "8", "9">>

isdigit(c) == \E i \in 1..Len(DIGITS) : DIGITS[i] = c

DigitVal(c) == (CHOOSE i \in 1..Len(DIGITS) : DIGITS[i] = c) - 1

isspace(c) == c = " "

RECURSIVE lstrip(_)
lstrip(t) == IF t # <<>> /\ isspace(Head(t)) THEN lstrip(Tail(t)) ELSE t

RECURSIVE rstrip(_)
rstrip(t) ==
  IF t # <<>> /\ isspace(t[Len(t)]) THEN rstrip(SubSeq(t, 1, Len(t) - 1)) ELSE t

\* str.strip() and get_text(strip=True)
strip(t) == rstrip(lstrip(t))

\* the first word of str.split(): None when the text holds no word
RECURSIVE TakeWord(_)
TakeWord(t) ==
  IF t = <<>> \/ isspace(Head(t)) THEN <<>> ELSE <<Head(t)>> \o TakeWord(Tail(t))

FirstWord(t) == IF lstrip(t) = <<>> THEN None ELSE Some(TakeWord(lstrip(t)))

RECURSIVE TakeDigits(_)
TakeDigits(t) ==
  IF t = <<>> \/ ~isdigit(Head(t)) THEN <<>> ELSE <<Head(t)>> \o TakeDigits(Tail(t))

\* the first run of digits only, as a regular expression \d+ would find it
RECURSIVE FirstDigitRun(_)
FirstDigitRun(t) ==
  IF t = <<>> THEN <<>>
  ELSE IF isdigit(Head(t)) THEN TakeDigits(t) ELSE FirstDigitRun(Tail(t))

\* ''.join(filter(str.isdigit, text))
FilterDigits(t) == SelectSeq(t, isdigit)

\* the value of a string of decimal digits
RECURSIVE DecimalValue(_)
DecimalValue(s) ==
  IF s = <<>> THEN 0
  ELSE 10 * DecimalValue(SubSeq(s, 1, Len(s) - 1)) + DigitVal(s[Len(s)])

AllDigits(s) == \A i \in 1..Len(s) : isdigit(s[i])

\* int(s): None stands for ValueError
ParseInt(s) == IF s # <<>> /\ AllDigits(s) THEN Some(DecimalValue(s)) ELSE None

RECURSIVE Pow10(_)
Pow10(n) == IF n = 0 THEN 1 ELSE 10 * Pow10(n - 1)

RECURSIVE Normal(_, _)
Normal(m, d) ==
  IF d > 0 /\ m % 10 = 0 THEN Normal(m \div 10, d - 1) ELSE [mant |-> m, dec |-> d]

Dots(s) == {i \in 1..Len(s) : s[i] = "."}

\* the digits before and after the one "." of an unsigned decimal
FloatOfParts(int, frac) ==
  IF AllDigits(int \o frac) /\ int \o frac # <<>>
  THEN Some(Normal(DecimalValue(int \o frac), Len(frac)))
  ELSE None

FloatOfUnsigned(body, dots) ==
  IF dots = {} THEN FloatOfParts(body, <<>>)
  ELSE IF Cardinality(dots) > 1 THEN None
  ELSE FloatOfParts(SubSeq(body, 1, (CHOOSE i \in dots : TRUE) - 1),
                    SubSeq(body, (CHOOSE i \in dots : TRUE) + 1, Len(body)))

Negated(f) == IF f = None THEN None ELSE Some([f[1] EXCEPT !.mant = -@])

FloatOfStripped(t) ==
  IF t # <<>> /\ Head(t) = "-" THEN Negated(FloatOfUnsigned(Tail(t), Dots(Tail(t))))
  ELSE IF t # <<>> /\ Head(t) = "+" THEN FloatOfUnsigned(Tail(t), Dots(Tail(t)))
  ELSE FloatOfUnsigned(t, Dots(t))

\* float(s) on the decimal notation [sign] digits [. digits], surrounding
\* whitespace ignored: None stands for ValueError
ParseFloat(s) == FloatOfStripped(strip(s))

\* a <= b on floats
FloatLe(a, b) == a.mant * Pow10(b.dec) <= b.mant * Pow10(a.dec)

FloatOfInt(n) == [mant |-> n, dec |-> 0]

(***************************************************************************)
(* Exceptions and results.  An error is [type, field, msg]: field is what  *)
(* the error carries about its place, the name interpolated into a         *)
(* ValueError message or the loc of a pydantic error, "" when none.        *)
(***************************************************************************)
Error(type, field, msg) == [type |-> type, field |-> field, msg |-> msg]

Ok(v) == [ok |-> TRUE, val |-> v]

Raise(e) == [ok |-> FALSE, exc |-> e]

\* [t.strip() for t in texts]
StripAll(texts) == [i \in 1..Len(texts) |-> strip(texts[i])]

\* truth value of an optional attribute text: absent and "" are falsy
Truthy(o) == o # None /\ o[1] # <<>>

(***************************************************************************)
(* The document query layer: what each selector of __init__ matches.       *)
(***************************************************************************)
RATING_ALT == <<"r", "a", "t", "i", "n", "g">>

\* "rating": div[style*='text-align:center'] img[alt='rating'] keeps, of the
\* images of the centred block, those whose alt attribute is exactly 'rating'
MatchesRatingSelector(img) == img.alt = Some(RATING_ALT)

\* raw_data if "status.delivery" had a query of its own, here that of
\* special_offers
RawDataWithOwnDeliveryQuery(d) ==
  [name |-> d.name,
   description |-> d.description,
   rating |-> SelectSeq(d.centredImgs, MatchesRatingSelector),
   reviews_count |-> d.reviews,
   verified |-> d.blueDivs,
   status_delivery |-> d.offers,
   special_offers |-> d.offers,
   images_main |-> d.mainImgs,
   images_gallery |-> d.galleryImgs,
   products_categories |-> d.categories,
   products_items |-> d.items,
   contact_website |-> d.website,
   contact_line |-> d.line,
   location_area |-> d.area,
   location_map |-> d.map]

\* raw_data, field by field; verified and status.delivery are the matches
\* of one and the same query
RawData(d) ==
  [name |-> d.name,
   description |-> d.description,
   rating |-> SelectSeq(d.centredImgs, MatchesRatingSelector),
   reviews_count |-> d.reviews,
   verified |-> d.blueDivs,
   status_delivery |-> d.blueDivs,
   special_offers |-> d.offers,
   images_main |-> d.mainImgs,
   images_gallery |-> d.galleryImgs,
   products_categories |-> d.categories,
   products_items |-> d.items,
   contact_website |-> d.website,
   contact_line |-> d.line,
   location_area |-> d.area,
   location_map |-> d.map]

(***************************************************************************)
(* extraction.py: the field helpers.                                       *)
(***************************************************************************)
RequiredText(v, field) ==
  IF v = <<>> THEN Raise(Error("ValueError", field, "Required field is missing"))
  ELSE Ok(v)

\* _get_text without its check for an empty value
_get_text_unchecked(value, field) ==
  Ok(IF value = None THEN <<>> ELSE strip(value[1]))

_get_text(value, field) ==
  RequiredText(IF value = None THEN <<>> ELSE strip(value[1]), field)

\* _get_image_url without its guard: data[field][0] on an empty match list
_get_image_url_unguarded(imgs, field) ==
  IF imgs = <<>>
  THEN Raise(Error("IndexError", "", "list index out of range"))
  ELSE Ok(IF imgs[1].src = None THEN "" ELSE imgs[1].src[1])

_get_image_url(imgs, field) ==
  IF imgs = <<>>
  THEN Raise(Error("ValueError", field, "Required image field is missing"))
  ELSE Ok(IF imgs[1].src = None THEN "" ELSE imgs[1].src[1])

HasSrc(img) == img.src # None /\ img.src[1] # ""

SrcOf(img) == img.src[1]

SrcsOf(imgs) == [i \in 1..Len(imgs) |-> SrcOf(imgs[i])]

_get_gallery_urls(gallery) == SrcsOf(SelectSeq(gallery, HasSrc))

OrZero(f) == IF f = None THEN FloatOfInt(0) ELSE f[1]

FloatOfWord(word) == IF word = None THEN None ELSE ParseFloat(word[1])

\* float(alt.split()[0]), 0.0 on IndexError and ValueError
RatingOfAlt(alt) == OrZero(FloatOfWord(FirstWord(alt)))

_parse_rating(rating_data) ==
  IF rating_data = <<>>
  THEN Raise(Error("ValueError", "", "Rating is required"))
  ELSE Ok(RatingOfAlt(IF rating_data[1].alt = None THEN <<"0">>
                       ELSE rating_data[1].alt[1]))

_parse_reviews_count(reviews_data) ==
  IF reviews_data = <<>> THEN None
  ELSE ParseInt(FilterDigits(strip(reviews_data[1])))

ToFloat(n) == IF n = None THEN None ELSE Some(FloatOfInt(n[1]))

_parse_price(price_element) ==
  IF price_element = None THEN None
  ELSE ToFloat(ParseInt(FilterDigits(strip(price_element[1]))))

NonBlank(t) == strip(t) # <<>>

_parse_special_offers(offers_data) == StripAll(SelectSeq(offers_data, NonBlank))

\* select_one: the first match or None
select_one(matches) == IF matches = <<>> THEN None ELSE Some(matches[1])

\* models.py ProductItem with its validator name_must_not_be_empty
ProductItem(name, price, description, category, image) ==
  IF strip(name) = <<>>
  THEN Raise(Error("ValidationError", "name", "Product name cannot be empty"))
  ELSE Ok([name |-> strip(name), price |-> price, description |-> description,
           category |-> category, image |-> image])

\* one turn of the loop over data["products.items"]
AssembleItem(item) ==
  IF select_one(item.name) = None
  THEN Raise(Error("AttributeError", "", "'NoneType' object has no attribute 'get_text'"))
  ELSE ProductItem(strip(item.name[1]),
                   _parse_price(select_one(item.price)),
                   IF item.description = <<>> THEN None
                   ELSE Some(strip(item.description[1])),
                   StripAll(item.category),
                   IF item.image = <<>> THEN None ELSE item.image[1].src)

\* the loop over data["products.items"], turn by turn
AssembleItems(items) == [i \in 1..Len(items) |-> AssembleItem(items[i])]

Failed(outcomes) == {i \in 1..Len(outcomes) : ~outcomes[i].ok}

FirstFailed(outcomes) == CHOOSE i \in Failed(outcomes) : \A j \in Failed(outcomes) : i <= j

ValsOf(outcomes) == [i \in 1..Len(outcomes) |-> outcomes[i].val]

Products(categories, outcomes) ==
  IF Failed(outcomes) # {} THEN Raise(outcomes[FirstFailed(outcomes)].exc)
  ELSE Ok([categories |-> categories, items |-> ValsOf(outcomes)])

_process_products(data) ==
  Products(StripAll(data.products_categories), AssembleItems(data.products_items))

HrefOf(nodes) ==
  IF nodes = <<>> THEN None
  ELSE Some(IF nodes[1].href = None THEN "" ELSE nodes[1].href[1])

_process_contact(data) ==
  IF data.contact_website = <<>> /\ data.contact_line = <<>> THEN None
  ELSE Some([website |-> HrefOf(data.contact_website),
             line |-> HrefOf(data.contact_line)])

\* models.py MapLocation
MapLocation(element, coordinates) == [element |-> element, coordinates |-> coordinates]

\* the coordinates dict of lines 199-202, float() applied to both attributes
Coordinates(map_element, lat, lng) ==
  IF lat = None \/ lng = None
  THEN Raise(Error("ValueError", "", "could not convert string to float"))
  ELSE Ok(MapLocation(map_element, Some([lat |-> lat[1], lng |-> lng[1]])))

MapOfElement(map_element) ==
  IF Truthy(map_element.data_lat) /\ Truthy(map_element.data_lng)
  THEN Coordinates(map_element, ParseFloat(map_element.data_lat[1]),
                   ParseFloat(map_element.data_lng[1]))
  ELSE Ok(MapLocation(map_element, None))

_process_map(map_data) ==
  IF map_data = <<>>
  THEN Raise(Error("ValueError", "", "Map element is required"))
  ELSE MapOfElement(map_data[1])

Location(area, map) ==
  IF ~area.ok THEN area
  ELSE IF ~map.ok THEN map
  ELSE Ok([area |-> area.val, map |-> map.val])

_process_location(data) ==
  Location(_get_text(data.location_area, "location.area"),
           _process_map(data.location_map))

(***************************************************************************)
(* extraction.py extract, lines 56-81: the shop_data literal.  Its entries *)
(* are evaluated in source order and the first exception leaves the        *)
(* function.                                                               *)
(***************************************************************************)
AssemblySteps(data) ==
  <<_get_text(data.name, "name"),
    _get_text(data.description, "description"),
    _parse_rating(data.rating),
    Ok(_parse_reviews_count(data.reviews_count)),
    Ok(data.verified # <<>>),
    Ok(data.status_delivery # <<>>),
    Ok(_parse_special_offers(data.special_offers)),
    _get_image_url(data.images_main, "images.main"),
    Ok(_get_gallery_urls(data.images_gallery)),
    _process_products(data),
    Ok(_process_contact(data)),
    _process_location(data)>>

ShopDataOf(steps) ==
  IF Failed(steps) # {} THEN Raise(steps[FirstFailed(steps)].exc)
  ELSE Ok([name |-> steps[1].val,
           description |-> steps[2].val,
           rating |-> steps[3].val,
           reviews_count |-> steps[4].val,
           verified |-> steps[5].val,
           delivery_service |-> steps[6].val,
           special_offers |-> steps[7].val,
           images |-> [main |-> steps[8].val, gallery |-> steps[9].val],
           products |-> steps[10].val,
           contact |-> steps[11].val,
           location |-> steps[12].val])

Assemble(data) == ShopDataOf(AssemblySteps(data))

(***************************************************************************)
(* models.py ShopData: the constraints and validators, in field order.     *)
(* pydantic gathers the errors of all fields into one ValidationError.     *)
(***************************************************************************)
RATING_GE == 0

RATING_LE == 5

REVIEWS_GE == 0

OneIf(cond, e) == IF cond THEN <<e>> ELSE <<>>

validate_rating(v) ==
  OneIf(~FloatLe(FloatOfInt(RATING_GE), v),
        Error("ValidationError", "rating", "ensure this value is greater than or equal to 0"))
  \o OneIf(FloatLe(FloatOfInt(RATING_GE), v) /\ ~FloatLe(v, FloatOfInt(RATING_LE)),
           Error("ValidationError", "rating", "ensure this value is less than or equal to 5"))

validate_reviews_count(v) ==
  OneIf(v # None /\ ~(v[1] >= REVIEWS_GE),
        Error("ValidationError", "reviews_count", "ensure this value is greater than or equal to 0"))

validate_images(v) ==
  OneIf(v.main = "", Error("ValidationError", "images", "Main image is required"))

\* validate_products without its second check
validate_products_categories_only(v) ==
  OneIf(v.categories = <<>>,
        Error("ValidationError", "products", "At least one product category is required"))

validate_products(v) ==
  IF v.categories = <<>>
  THEN <<Error("ValidationError", "products", "At least one product category is required")>>
  ELSE OneIf(v.items = <<>>,
             Error("ValidationError", "products", "At least one product item is required"))

\* v.get('map') is the dict of a MapLocation, which is never empty
validate_location(v) ==
  OneIf(v.area = <<>>, Error("ValidationError", "location", "Location area is required"))

ShopData(d) ==
  validate_rating(d.rating) \o validate_reviews_count(d.reviews_count)
  \o validate_images(d.images) \o validate_products(d.products)
  \o validate_location(d.location)

\* validated_data.dict(), with the metadata extract passes in
Dict(d) ==
  d @@ [metadata |-> [missing_optional_fields |-> <<>>, validation_errors |-> <<>>]]

(***************************************************************************)
(* The documents of the model.  FieldDocs combines every sample of every   *)
(* top-level field with at most one product container; ProductDocs puts    *)
(* every sequence of up to MaxItems containers into a document that is     *)
(* well-formed elsewhere.                                                  *)
(***************************************************************************)
ShopName == <<" ", "S", "h", "o", "p">>

Names == {None, Some(ShopName)}

Descriptions == {None, Some(<<"o", "k">>)}

Img(src) == [src |-> src]

AltImg(alt) == [alt |-> Some(alt)]

FourPointFive == <<"4", ".", "5">>

CentredImgs ==
  {<<>>, <<AltImg(RATING_ALT)>>, <<AltImg(FourPointFive)>>,
   <<AltImg(FourPointFive), AltImg(RATING_ALT)>>}

Reviews == {<<>>, << <<"(", "1", "2", ")">> >>, << <<"n", "e", "w">> >>}

BlueDivs == {<<>>, <<"div">>}

MainImgs == {<<>>, <<Img(Some("main.jpg"))>>, <<Img(None)>>}

Categories ==
  {<<>>, << <<"F", "l", "o", "w", "e", "r", "s">> >>,
   << <<"O", "i", "l", " ">>, <<" ">> >>}

Offers == {<<>>, << <<"2", "4", "h", " ">>, <<" ">>, <<"S", "a", "l", "e">> >>}

Container(name, price) ==
  [name |-> name, price |-> price, description |-> <<>>, category |-> <<>>,
   image |-> <<>>]

\* a container with chips: the matches of products.item.category
Tagged(container, category) == [container EXCEPT !.category = category]

Containers ==
  {Container(<< <<"A">> >>, << <<"$", "1", "2", "0", "0">> >>),
   Container(<< <<"B", " ">> >>, <<>>),
   Container(<<>>, << <<"1", "2", ".", "5", "0">> >>),
   Container(<< <<" ">> >>, << <<"f", "r", "e", "e">> >>),
   Tagged(Container(<< <<"C">> >>, << <<"f", "r", "e", "e">> >>),
          << <<"x", " ">>, <<" ">> >>)}

RECURSIVE SeqsUpTo(_, _)
SeqsUpTo(S, n) ==
  IF n = 0 THEN {<<>>}
  ELSE {<<>>} \cup {<<x>> \o q : x \in S, q \in SeqsUpTo(S, n - 1)}

Areas == {None, Some(<<"B", "K", "K">>)}

Lat == <<"1", "3", ".", "7", "5", "6", "3">>

Lng == <<"1", "0", "0", ".", "5", "0", "1", "8">>

MapNode(lat, lng) == [data_lat |-> lat, data_lng |-> lng]

Maps ==
  {<<>>, <<MapNode(Some(Lat), Some(Lng))>>, <<MapNode(Some(Lat), None)>>,
   <<MapNode(None, Some(Lng))>>, <<MapNode(Some(<<"a", "b", "c">>), Some(Lng))>>}

FieldDocs ==
  [name : Names, description : Descriptions, centredImgs : CentredImgs,
   reviews : Reviews, blueDivs : BlueDivs, offers : {<<>>}, mainImgs : MainImgs,
   galleryImgs : {<<>>}, categories : Categories,
   items : SeqsUpTo(Containers, 1), website : {<<>>}, line : {<<>>},
   area : Areas, map : Maps]

ProductDocs ==
  [name : {Some(ShopName)}, description : Descriptions \ {None},
   centredImgs : {<<AltImg(RATING_ALT)>>}, reviews : {<<>>}, blueDivs : {<<>>},
   offers : Offers, mainImgs : {<<Img(Some("main.jpg"))>>}, galleryImgs : {<<>>},
   categories : Categories, items : SeqsUpTo(Containers, MaxItems),
   website : {<<>>}, line : {<<>>}, area : Areas \ {None},
   map : {<<MapNode(Some(Lat), Some(Lng))>>}]

Docs == FieldDocs \cup ProductDocs

(***************************************************************************)
(* verify_selectors.py: the selector table.  validation names the check of *)
(* the entry's predicate on the first matched node: "none" when the entry  *)
(* has no predicate, "holds" when the predicate is true of every node the  *)
(* selector can match (the alt text of img[alt='rating'], bool() of a      *)
(* Tag), else what the predicate reads.  msg is error_msg or warning_msg.  *)
(***************************************************************************)
Entry(section, field, selector, required, validation, msg) ==
  [section |-> section, field |-> field, selector |-> selector,
   required |-> required, validation |-> validation, msg |-> msg,
   extract |-> FALSE]

WithExtract(e) == [e EXCEPT !.extract = TRUE]

SELECTORS_TO_TEST ==
  <<Entry("basic", "name", "h1", TRUE, "text", "Shop name must not be empty"),
    Entry("basic", "description", "div[style*='white-space:pre-wrap']", TRUE,
          "text", "Description must not be empty"),
    Entry("basic", "rating", "div[style*='text-align:center'] img[alt='rating']",
          TRUE, "holds", "Rating must have alt text"),
    Entry("basic", "reviews.count",
          "div[style*='text-align:center'] div[style*='font-size:22px']", FALSE,
          "digit", "Reviews count should contain numbers"),
    Entry("basic", "verified", "div[style*='color: rgb(74, 153, 233)']", FALSE,
          "none", ""),
    Entry("basic", "status.delivery", "div[style*='color: rgb(74, 153, 233)']",
          FALSE, "none", ""),
    Entry("basic", "special_offers", "div._Dispensary_medcardHeader___L6AM",
          FALSE, "none", ""),
    Entry("images", "main",
          "div.FeaturedImage_featuredImage__GA2Cw img[alt*='og.th']", TRUE,
          "src", "Main image must have src attribute"),
    Entry("images", "gallery",
          "div.FeaturedImage_featuredImage__GA2Cw img[loading='eager']", FALSE,
          "src", "Gallery images should have src attributes"),
    Entry("products", "categories", "h2.ShopProductAll_productsHeader__10hBt",
          TRUE, "text", "At least one product category is required"),
    Entry("products", "items", "div.ShopProductAll_product__Cc_k7", TRUE,
          "holds", "At least one product item is required"),
    Entry("products", "item.name", "div.ShopProductAll_header__BSmhH a", TRUE,
          "text", "Product name must not be empty"),
    Entry("products", "item.price", "div.ShopProductAll_prices__pWISY", FALSE,
          "digit", "Price should contain numbers"),
    Entry("products", "item.description",
          "div.ShopProductAll_description__ItGaW", FALSE, "none", ""),
    Entry("products", "item.category", "div.ShopProductAll_chips__jqQLw div div",
          FALSE, "none", ""),
    Entry("products", "item.image",
          "div.ShopProductAll_imageContainer__1TiEr img", FALSE, "src",
          "Product image should have src attribute"),
    Entry("contact", "website",
          "div[style*='border:1px solid #04b14e'] svg[width='26'][height='26']",
          FALSE, "none", ""),
    Entry("contact", "line",
          "div[style*='border:1px solid #04b14e'] path[d*='M256 64C150']",
          FALSE, "none", ""),
    Entry("location", "area", "h2 a[href*='/cannabis/']", TRUE, "text",
          "Area must not be empty"),
    WithExtract(Entry("location", "coordinates", "div.layout_map__AFkLI", TRUE,
                      "latlng", "Map coordinates not found in data attributes")),
    Entry("location", "map_provider", "div.layout_map__AFkLI", TRUE, "mapbox",
          "Map provider should be Mapbox"),
    Entry("location", "place_name", "h1", TRUE, "text", "Shop name is required"),
    Entry("location", "map", "div.layout_map__AFkLI", TRUE, "holds",
          "Map element is required")>>

Entries == 1..Len(SELECTORS_TO_TEST)

\* f"{section}.{field}"
Path(e) == e.section \o "." \o e.field

Selectors == {SELECTORS_TO_TEST[i].selector : i \in Entries}

\* a predicate applied to the first node a selector matches
CheckOf(e) == [selector |-> e.selector, validation |-> e.validation]

Checks ==
  {CheckOf(SELECTORS_TO_TEST[i]) :
     i \in {j \in Entries : SELECTORS_TO_TEST[j].validation \notin {"none", "holds"}}}

(***************************************************************************)
(* The pages of the harness.  A page is described by what the harness can  *)
(* observe: how many nodes each selector matches, the checks that are      *)
(* false of the first matched node, the checks that raise on it, the       *)
(* selectors whose first node cannot be printed (str() of it raises, and   *)
(* so does str() of the page that holds it), and whether the page links to *)
(* Google Maps.  The pages are those that differ in at most two respects   *)
(* from the page on which every selector matches one sound node, and the   *)
(* pages on which every selector or every check fails.                     *)
(***************************************************************************)
MaxMatches == 4

Deviation(kind, selector, validation, n) ==
  [kind |-> kind, selector |-> selector, validation |-> validation, n |-> n]

Deviations ==
  {Deviation("count", s, "", n) : s \in Selectors, n \in (0..MaxMatches) \ {1}}
  \cup {Deviation("deep", s, "", 0) : s \in Selectors}
  \cup {Deviation(k, c.selector, c.validation, 0) : k \in {"false", "raises"}, c \in Checks}
  \cup {Deviation("no_map_links", "", "", 0)}

OfKind(D, kind) == {d \in D : d.kind = kind}

CountsOf(D, s) == {d.n : d \in {x \in OfKind(D, "count") : x.selector = s}}

Least(N) == CHOOSE n \in N : \A m \in N : n <= m

SoupOf(D) ==
  [count |-> [s \in Selectors |-> IF CountsOf(D, s) = {} THEN 1 ELSE Least(CountsOf(D, s))],
   deep |-> {d.selector : d \in OfKind(D, "deep")},
   failing |-> {CheckOf(d) : d \in OfKind(D, "false")},
   raising |-> {CheckOf(d) : d \in OfKind(D, "raises")},
   map_links |-> OfKind(D, "no_map_links") = {}]

HarnessDocs ==
  {SoupOf({d1, d2}) : d1, d2 \in Deviations}
  \cup {SoupOf({}), SoupOf(OfKind(Deviations, "count")),
        SoupOf(OfKind(Deviations, "false")), SoupOf(OfKind(Deviations, "raises"))}

\* soup.select(selector): the matched nodes, by rank
select(s, selector) == [k \in 1..s.count[selector] |-> k]

\* the selectors that match a node which cannot be printed
DeepNodes(s) == {sel \in s.deep : s.count[sel] > 0}

HarnessIdle ==
  /\ soup = SoupOf({})
  /\ entry = 0
  /\ result = None
  /\ results = <<>>
  /\ report = None
  /\ evaluated = {}

TasksIdle ==
  /\ tasks = <<>>
  /\ frames = <<>>
  /\ heap = <<>>

\* outside the harness's main loop, scrape_shop_urls and the map-link scraper
CrawlIdle ==
  /\ urls = <<>>
  /\ url_index = 0
  /\ total_stats = None
  /\ printed = <<>>
  /\ saved = <<>>
  /\ limit = 0
  /\ page = 0
  /\ loads = 0
  /\ shop_urls = <<>>
  /\ first_seen = <<>>
  /\ returned = None
  /\ map_urls = <<>>
  /\ map_index = 0
  /\ contexts = {}
  /\ browser = "none"
  /\ map_results = <<>>

(***************************************************************************)
(* One run of extract.  pc: "start", "assembled" (shop_data built, line    *)
(* 81), "returned" (line 92) or "raised" (lines 94-96).                    *)
(***************************************************************************)
Init ==
  /\ doc \in Docs
  /\ pc = "start"
  /\ shop_data = None
  /\ record = None
  /\ violations = <<>>
  /\ text = <<>>
  /\ number = None
  /\ HarnessIdle
  /\ TasksIdle
  /\ CrawlIdle

\* lines 50-81
AssembleShopData ==
  /\ pc = "start"
  /\ \E r \in {Assemble(RawData(doc))} :
       IF r.ok
       THEN /\ shop_data' = Some(r.val)
            /\ pc' = "assembled"
            /\ UNCHANGED violations
       ELSE /\ violations' = <<r.exc>>
            /\ pc' = "raised"
            /\ UNCHANGED shop_data
  /\ UNCHANGED <<doc, record, text, number, harness_vars, task_vars, crawl_vars>>

\* lines 84-96
Validate ==
  /\ pc = "assembled"
  /\ \E errors \in {ShopData(shop_data[1])} :
       IF errors = <<>>
       THEN /\ record' = Some(Dict(shop_data[1]))
            /\ pc' = "returned"
            /\ UNCHANGED violations
       ELSE /\ violations' = errors
            /\ pc' = "raised"
            /\ UNCHANGED record
  /\ UNCHANGED <<doc, shop_data, text, number, harness_vars, task_vars, crawl_vars>>

Next == AssembleShopData \/ Validate

Spec == Init /\ [][Next]_vars

(***************************************************************************)
(* The number-from-text coercions on their own: every text of up to MaxLen *)
(* characters of Chars is the text of a price node or of the first         *)
(* reviews-count node.                                                     *)
(***************************************************************************)
Chars == {"0", "1", "2", "5", ".", "$", "-"}

Texts == SeqsUpTo(Chars, MaxLen)

InitCoerce ==
  /\ text \in Texts
  /\ number = None
  /\ pc = "text"
  /\ doc = CHOOSE d \in ProductDocs : TRUE
  /\ shop_data = None
  /\ record = None
  /\ violations = <<>>
  /\ HarnessIdle
  /\ TasksIdle
  /\ CrawlIdle

ParsePrice ==
  /\ pc = "text"
  /\ number' = _parse_price(Some(text))
  /\ pc' = "price"
  /\ UNCHANGED <<doc, shop_data, record, violations, text, harness_vars, task_vars, crawl_vars>>

ParseReviewsCount ==
  /\ pc = "text"
  /\ number' = _parse_reviews_count(<<text>>)
  /\ pc' = "reviews_count"
  /\ UNCHANGED <<doc, shop_data, record, violations, text, harness_vars, task_vars, crawl_vars>>

NextCoerce == ParsePrice \/ ParseReviewsCount

SpecCoerce == InitCoerce /\ [][NextCoerce]_vars

(***************************************************************************)
(* verify_selectors.py validate_selector, for one entry of the table.  A   *)
(* sample is the rank of the node it describes, and whether it carries the *)
(* node's markup ("html").                                                 *)
(***************************************************************************)
SAMPLE_LIMIT == 3

Min(a, b) == IF a <= b THEN a ELSE b

Sample(element, html) == [element |-> element, html |-> html]

\* lines 330-340: the result as constructed, with elements[:3] as samples
SelectorValidationResult(e, elements) ==
  [found |-> Len(elements) > 0,
   count |-> Len(elements),
   samples |-> [k \in 1..Min(Len(elements), SAMPLE_LIMIT) |-> Sample(elements[k], FALSE)],
   is_required |-> e.required,
   validation_errors |-> <<>>,
   validation_warnings |-> <<>>,
   extracted_value |-> IF e.extract /\ elements # <<>> THEN Some(elements[1]) ELSE None,
   html_context |-> None]

\* one turn of the loop of lines 343-379 for the node of rank k: str(elem)
\* raises for a node that cannot be printed, get_html_context prints the
\* whole page, and the except clause records either
Sampled(r, s, selector, k) ==
  IF k = 1 /\ selector \in s.deep
  THEN [r EXCEPT !.validation_errors = Append(@, "Error getting sample")]
  ELSE IF r.html_context # None
  THEN [r EXCEPT !.samples = Append(@, Sample(k, TRUE))]
  ELSE IF DeepNodes(s) # {}
  THEN [r EXCEPT !.samples = Append(@, Sample(k, TRUE)),
                 !.validation_errors = Append(@, "Error getting sample")]
  ELSE [r EXCEPT !.samples = Append(@, Sample(k, TRUE)), !.html_context = Some(k)]

RECURSIVE SampleLoop(_, _, _, _)
SampleLoop(r, s, selector, k) ==
  IF k > Min(r.count, SAMPLE_LIMIT) THEN r
  ELSE SampleLoop(Sampled(r, s, selector, k), s, selector, k + 1)

\* lines 327-379
Queried(s, e) ==
  SampleLoop(SelectorValidationResult(e, select(s, e.selector)), s, e.selector, 1)

\* config["validation"](elements[0]): "true", "false" or "raises"
Verdict(s, e) ==
  IF e.validation = "holds" THEN "true"
  ELSE IF CheckOf(e) \in s.raising THEN "raises"
  ELSE IF CheckOf(e) \in s.failing THEN "false"
  ELSE "true"

\* line 382 without "and elements"
EvaluatesUnfound(e, r) == e.validation # "none"

\* line 382: the predicate is applied when the entry has one and a node matched
Evaluates(e, r) == e.validation # "none" /\ r.count > 0

\* lines 385-389 with errors and warnings the other way round
FailingSwapped(e, r) ==
  IF e.required
  THEN [r EXCEPT !.validation_warnings = Append(@, e.msg)]
  ELSE [r EXCEPT !.validation_errors = Append(@, e.msg)]

\* lines 385-389
Failing(e, r) ==
  IF e.required
  THEN [r EXCEPT !.validation_errors = Append(@, e.msg)]
  ELSE [r EXCEPT !.validation_warnings = Append(@, e.msg)]

\* the predicate's exception without the except clause of lines 390-391
Uncaught(r) == Raise(Error("Exception", "", "Validation error"))

\* lines 390-391
Caught(r) == Ok([r EXCEPT !.validation_errors = Append(@, "Validation error")])

\* lines 381-393
Validated(s, e, r) ==
  IF ~Evaluates(e, r) THEN Ok(r)
  ELSE IF Verdict(s, e) = "raises" THEN Caught(r)
  ELSE IF Verdict(s, e) = "false" THEN Ok(Failing(e, r))
  ELSE Ok(r)

(***************************************************************************)
(* verify_selectors.py verify_selectors, lines 467-495: the report.        *)
(* rs holds the results in the order of the table, which is the order of   *)
(* results.items().                                                        *)
(***************************************************************************)
\* line 475 for every entry, required or not
IsMissingOrInvalid(r) == ~r.found \/ r.validation_errors # <<>>

\* lines 474-475
IsMissing(r) == r.is_required /\ (~r.found \/ r.validation_errors # <<>>)

RECURSIVE MissingFrom(_, _)
MissingFrom(rs, i) ==
  IF i > Len(rs) THEN <<>>
  ELSE (IF IsMissing(rs[i]) THEN <<Path(SELECTORS_TO_TEST[i])>> ELSE <<>>)
       \o MissingFrom(rs, i + 1)

RECURSIVE ErrorsFrom(_, _)
ErrorsFrom(rs, i) ==
  IF i > Len(rs) THEN <<>>
  ELSE (IF IsMissing(rs[i]) THEN rs[i].validation_errors ELSE <<>>)
       \o ErrorsFrom(rs, i + 1)

RECURSIVE WarningsFrom(_, _)
WarningsFrom(rs, i) ==
  IF i > Len(rs) THEN <<>>
  ELSE (IF ~rs[i].is_required THEN rs[i].validation_warnings ELSE <<>>)
       \o WarningsFrom(rs, i + 1)

IsPresent(r) == ~r.is_required /\ r.found /\ r.validation_warnings = <<>>

IsOptional(r) == ~r.is_required

\* lines 420-437
MapLinkWarnings(s) == IF s.map_links THEN <<>> ELSE <<"No Google Maps links found">>

ValidationReport(s, rs) ==
  [results |-> rs,
   missing_required |-> MissingFrom(rs, 1),
   optional_present |-> Len(SelectSeq(rs, IsPresent)),
   total_optional |-> Len(SelectSeq(rs, IsOptional)),
   validation_errors |-> ErrorsFrom(rs, 1),
   validation_warnings |-> MapLinkWarnings(s) \o WarningsFrom(rs, 1)]

(***************************************************************************)
(* One run of the harness over a parsed page.  pc: "query" (line 465,      *)
(* before validate_selector of the entry), "validate" (line 381, the entry *)
(* queried and sampled), "process" (line 467), "reported" (line 485), or   *)
(* "raised" when an exception leaves verify_selectors.                     *)
(***************************************************************************)
InitHarness ==
  /\ soup \in HarnessDocs
  /\ entry = 1
  /\ result = None
  /\ results = <<>>
  /\ report = None
  /\ evaluated = {}
  /\ pc = "query"
  /\ doc = CHOOSE d \in ProductDocs : TRUE
  /\ shop_data = None
  /\ record = None
  /\ violations = <<>>
  /\ text = <<>>
  /\ number = None
  /\ TasksIdle
  /\ CrawlIdle

\* lines 327-379
QuerySelector ==
  /\ pc = "query"
  /\ result' = Some(Queried(soup, SELECTORS_TO_TEST[entry]))
  /\ pc' = "validate"
  /\ UNCHANGED <<soup, entry, results, report, evaluated, run_vars, task_vars, crawl_vars>>

\* lines 381-393, and the assignment of line 465
ValidateField ==
  /\ pc = "validate"
  /\ \E v \in {Validated(soup, SELECTORS_TO_TEST[entry], result[1])} :
       IF v.ok
       THEN /\ results' = Append(results, v.val)
            /\ entry' = entry + 1
            /\ pc' = IF entry = Len(SELECTORS_TO_TEST) THEN "process" ELSE "query"
            /\ UNCHANGED violations
       ELSE /\ violations' = <<v.exc>>
            /\ pc' = "raised"
            /\ UNCHANGED <<results, entry>>
  /\ evaluated' = IF Evaluates(SELECTORS_TO_TEST[entry], result[1])
                  THEN evaluated \cup {entry} ELSE evaluated
  /\ result' = None
  /\ UNCHANGED <<soup, report, doc, shop_data, record, text, number, task_vars, crawl_vars>>

\* lines 467-495
ProcessResults ==
  /\ pc = "process"
  /\ report' = Some(ValidationReport(soup, results))
  /\ pc' = "reported"
  /\ UNCHANGED <<soup, entry, result, results, evaluated, run_vars, task_vars, crawl_vars>>

NextHarness == QuerySelector \/ ValidateField \/ ProcessResults

SpecHarness == InitHarness /\ [][NextHarness]_vars

(***************************************************************************)
(* verify_selectors.py main, lines 601-715: the harness run over the       *)
(* discovered URLs.  For each URL the page is fetched and verified, the    *)
(* report printed and saved to a file, and the statistics updated; an      *)
(* exception anywhere in that body is caught and counted as a failure.     *)
(* pc: "main" (line 604, the URLs discovered), "exit" (line 608), "loop"   *)
(* (line 636), "stats" (line 676), "finished" (line 715).                  *)
(***************************************************************************)
MaxUrls == 3

\* lines 75-80
REQUIRED_FIELDS ==
  [basic |-> <<"name", "description", "rating">>,
   images |-> <<"main">>,
   products |-> <<"categories", "items", "item.name">>,
   location |-> <<"area", "coordinates", "map">>]

\* len() of a dict is the number of its keys
RequiredPresent(rep) == Cardinality(DOMAIN REQUIRED_FIELDS) - Len(rep.missing_required)

\* the pages served: the sound page, the page on which no selector matches,
\* and the pages on which every check fails or raises
MainPages ==
  {SoupOf({}), SoupOf(OfKind(Deviations, "count")),
   SoupOf(OfKind(Deviations, "false")), SoupOf(OfKind(Deviations, "raises"))}

\* lines 395-495 as one call; fetched is None when crawler.arun fails
verify_selectors(fetched) ==
  IF fetched = None THEN Raise(Error("Exception", "", "page not loaded"))
  ELSE Ok(ValidationReport(fetched[1],
            [i \in Entries |-> Validated(fetched[1], SELECTORS_TO_TEST[i],
                                         Queried(fetched[1], SELECTORS_TO_TEST[i])).val]))

\* lines 535-549: the style of the row of a result
RowStyle(r) ==
  IF r.is_required /\ (~r.found \/ r.validation_errors # <<>>) THEN "red"
  ELSE IF r.validation_warnings # <<>> THEN "yellow"
  ELSE "plain"

\* lines 497-559: the rows of the table and the summary statistics
print_validation_report(rep) ==
  [rows |-> [i \in DOMAIN rep.results |->
               [required |-> rep.results[i].is_required, style |-> RowStyle(rep.results[i])]],
   required_present |-> RequiredPresent(rep),
   optional_present |-> rep.optional_present,
   total_optional |-> rep.total_optional]

\* lines 615-634
InitialStats(n) ==
  [total_urls |-> n,
   successful_validations |-> 0,
   failed_validations |-> 0,
   total_required_fields |-> 0,
   total_required_present |-> 0,
   total_optional_fields |-> 0,
   total_optional_present |-> 0,
   common_errors |-> [m \in {} |-> 0],
   field_presence_rates |->
     [i \in Entries |-> [present |-> 0, total |-> 0,
                         required |-> SELECTORS_TO_TEST[i].required]]]

\* lines 668-669
CommonErrors(counts, errors) ==
  [m \in DOMAIN counts \cup {errors[i] : i \in 1..Len(errors)} |->
     (IF m \in DOMAIN counts THEN counts[m] ELSE 0)
     + Cardinality({i \in 1..Len(errors) : errors[i] = m})]

\* lines 660-665
FieldPresence(rates, rs) ==
  [i \in DOMAIN rates |->
     [rates[i] EXCEPT !.total = @ + 1,
                      !.present = IF rs[i].found /\ rs[i].validation_errors = <<>>
                                  THEN @ + 1 ELSE @]]

\* lines 653-669
UpdateStatistics(stats, rep) ==
  [stats EXCEPT !.successful_validations = @ + 1,
                !.total_required_fields = @ + Len(rep.missing_required),
                !.total_required_present = @ + RequiredPresent(rep),
                !.total_optional_fields = @ + rep.total_optional,
                !.total_optional_present = @ + rep.optional_present,
                !.field_presence_rates = FieldPresence(@, rep.results),
                !.common_errors = CommonErrors(@, rep.validation_errors)]

\* lines 671-674 without the count
ExceptUncounted(stats) == stats

\* lines 671-674
Except(stats) == [stats EXCEPT !.failed_validations = @ + 1]

InitMain ==
  /\ urls \in {[i \in 1..n |-> i] : n \in 0..MaxUrls}
  /\ url_index = 0
  /\ total_stats = None
  /\ printed = <<>>
  /\ saved = <<>>
  /\ pc = "main"
  /\ doc = CHOOSE d \in ProductDocs : TRUE
  /\ shop_data = None
  /\ record = None
  /\ violations = <<>>
  /\ text = <<>>
  /\ number = None
  /\ HarnessIdle
  /\ TasksIdle
  /\ limit = 0
  /\ page = 0
  /\ loads = 0
  /\ shop_urls = <<>>
  /\ first_seen = <<>>
  /\ returned = None
  /\ map_urls = <<>>
  /\ map_index = 0
  /\ contexts = {}
  /\ browser = "none"
  /\ map_results = <<>>

\* lines 606-634
BeginMain ==
  /\ pc = "main"
  /\ IF urls = <<>>
     THEN /\ pc' = "exit"
          /\ UNCHANGED <<url_index, total_stats>>
     ELSE /\ pc' = "loop"
          /\ url_index' = 1
          /\ total_stats' = Some(InitialStats(Len(urls)))
  /\ UNCHANGED <<urls, printed, saved, run_vars, harness_vars, task_vars,
                 scrape_vars, maplink_vars>>

\* lines 636-674 for one URL: the page served, and whether the report file
\* can be written, are the environment's choice
VerifyUrl ==
  /\ pc = "loop"
  /\ \E fetched \in {None} \cup {Some(s) : s \in MainPages}, writable \in BOOLEAN :
       \E r \in {verify_selectors(fetched)} :
         IF ~r.ok
         THEN /\ total_stats' = Some(Except(total_stats[1]))
              /\ UNCHANGED <<printed, saved>>
         ELSE /\ printed' = Append(printed, print_validation_report(r.val))
              /\ IF writable
                 THEN /\ saved' = Append(saved, r.val)
                      /\ total_stats' = Some(UpdateStatistics(total_stats[1], r.val))
                 ELSE /\ total_stats' = Some(Except(total_stats[1]))
                      /\ UNCHANGED saved
  /\ url_index' = url_index + 1
  /\ pc' = IF url_index = Len(urls) THEN "stats" ELSE "loop"
  /\ UNCHANGED <<urls, run_vars, harness_vars, task_vars, scrape_vars, maplink_vars>>

\* lines 676-715
PrintOverall ==
  /\ pc = "stats"
  /\ pc' = "finished"
  /\ UNCHANGED <<main_vars, run_vars, harness_vars, task_vars, scrape_vars, maplink_vars>>

NextMain == BeginMain \/ VerifyUrl \/ PrintOverall

SpecMain == InitMain /\ [][NextMain]_vars

(***************************************************************************)
(* maplinkscrape.py scrape_shop_urls, lines 81-112.  shop_urls is the      *)
(* function's list urls, page its page counter.  A listing page is the     *)
(* sequence of the href attributes of the links that                       *)
(* a[href^="/shop/"] matches on it, and is the site's choice at each load. *)
(* loads counts the calls of goto; first_seen keeps, for every shop URL    *)
(* shown on a loaded page, the page and the position of its first link.    *)
(* pc: "scraping" (line 92), "collected" (the break of line 110),          *)
(* "returned" (line 112) or "raised" (goto or the wait failed).            *)
(***************************************************************************)
MaxLimit == 2

MAX_PAGES == 20

\* href attributes that start with /shop/: three shops and the bare prefix
Hrefs ==
  {<<"/", "s", "h", "o", "p", "/">> \o tail : tail \in {<<>>, <<"a">>, <<"b">>, <<"c", "/">>}}

\* the listing pages: no link, one link or two links
Listings == {<<>>} \cup {<<h>> : h \in Hrefs} \cup {<<h1, h2>> : h1, h2 \in Hrefs}

\* line 101: href and '/shop/' in href and not href.endswith('/shop/')
IsShopLink(href) ==
  /\ href # <<>>
  /\ \E i \in 1..Len(href) - 5 : SubSeq(href, i, i + 5) = <<"/", "s", "h", "o", "p", "/">>
  /\ ~(Len(href) >= 6 /\ SubSeq(href, Len(href) - 5, Len(href)) = <<"/", "s", "h", "o", "p", "/">>)

\* line 102
full_url(href) ==
  <<"h", "t", "t", "p", "s", ":", "/", "/", "w", "e", "e", "d", ".", "t", "h">> \o href

\* line 103 without the test
FreshAlways(list, u) == TRUE

\* line 103: full_url not in urls
Fresh(list, u) == \A i \in 1..Len(list) : list[i] # u

\* lines 99-106: the links of one page from the i-th on, n the limit
RECURSIVE CollectLinks(_, _, _, _)
CollectLinks(list, links, i, n) ==
  IF i > Len(links) THEN list
  ELSE IF IsShopLink(links[i]) /\ Fresh(list, full_url(links[i]))
       THEN IF Len(list) + 1 >= n THEN Append(list, full_url(links[i]))
            ELSE CollectLinks(Append(list, full_url(links[i])), links, i + 1, n)
       ELSE CollectLinks(list, links, i + 1, n)

\* line 109 without the test
NoSafetyLimit(p) == FALSE

\* line 109: the safety limit
SafetyLimit(p) == p > MAX_PAGES

\* the first sightings after page p has shown links
Sighted(seen, links, p) ==
  [u \in DOMAIN seen \cup {full_url(links[i]) : i \in {j \in 1..Len(links) : IsShopLink(links[j])}} |->
     IF u \in DOMAIN seen THEN seen[u]
     ELSE <<p, CHOOSE i \in 1..Len(links) :
                 /\ full_url(links[i]) = u
                 /\ \A j \in 1..(i - 1) : full_url(links[j]) # u>>]

\* lines 83-90
InitScrape ==
  /\ limit \in 0..MaxLimit
  /\ page = 1
  /\ loads = 0
  /\ shop_urls = <<>>
  /\ first_seen = [u \in {} |-> <<0, 0>>]
  /\ returned = None
  /\ pc = "scraping"
  /\ doc = CHOOSE d \in ProductDocs : TRUE
  /\ shop_data = None
  /\ record = None
  /\ violations = <<>>
  /\ text = <<>>
  /\ number = None
  /\ HarnessIdle
  /\ TasksIdle
  /\ urls = <<>>
  /\ url_index = 0
  /\ total_stats = None
  /\ printed = <<>>
  /\ saved = <<>>
  /\ map_urls = <<>>
  /\ map_index = 0
  /\ contexts = {}
  /\ browser = "none"
  /\ map_results = <<>>

\* lines 92-110: one pass of the while loop
LoadPage ==
  /\ pc = "scraping"
  /\ Len(shop_urls) < limit
  /\ \E links \in Listings :
       /\ shop_urls' = CollectLinks(shop_urls, links, 1, limit)
       /\ first_seen' = Sighted(first_seen, links, page)
  /\ loads' = loads + 1
  /\ page' = page + 1
  /\ pc' = IF SafetyLimit(page + 1) THEN "collected" ELSE "scraping"
  /\ UNCHANGED <<limit, returned, run_vars, harness_vars, task_vars, main_vars, maplink_vars>>

\* lines 94-95: goto or wait_for_load_state raises
LoadFails ==
  /\ pc = "scraping"
  /\ Len(shop_urls) < limit
  /\ loads' = loads + 1
  /\ pc' = "raised"
  /\ UNCHANGED <<limit, page, shop_urls, first_seen, returned, run_vars, harness_vars,
                 task_vars, main_vars, maplink_vars>>

\* line 112, reached from the break of line 110 or from the test of line 92
ReturnUrls ==
  /\ pc = "collected" \/ (pc = "scraping" /\ ~(Len(shop_urls) < limit))
  /\ returned' = Some(SubSeq(shop_urls, 1, Min(limit, Len(shop_urls))))
  /\ pc' = "returned"
  /\ UNCHANGED <<limit, page, loads, shop_urls, first_seen, run_vars, harness_vars,
                 task_vars, main_vars, maplink_vars>>

NextScrape == LoadPage \/ LoadFails \/ ReturnUrls

SpecScrape == InitScrape /\ [][NextScrape]_vars

\* the caller awaits the coroutine and every await of it returns or raises
\* (Playwright's navigation timeout), so a pass that can be taken is taken
SpecScrapeFair == SpecScrape /\ WF_vars(NextScrape)

(***************************************************************************)
(* maplinkscrape.py main, lines 131-156: the loop over the shop URLs.      *)
(* contexts holds the browser contexts that are open, named by the         *)
(* position of the URL they were opened for.  Whether a Playwright call    *)
(* succeeds, and what a shop page shows, is the environment's choice.      *)
(* pc: "context" (line 138, also the top of the loop), "goto" (line 139),  *)
(* "extract" (line 141), "closed" (line 156) or "aborted" (the results     *)
(* file could not be written).                                             *)
(***************************************************************************)
MaxShops == 3

\* what extract_map_links observes of a loaded page: whether the network
\* goes idle, whether the map container appears, and the map link shown.
\* A shop URL is named by the number of its shop, which is its shop_id.
ShopPages == [idle : BOOLEAN, map : BOOLEAN, link : {"none", "short", "long"}]

\* lines 37-79
extract_map_links(shown, url) ==
  IF ~shown.idle THEN Raise(Error("TimeoutError", "", "networkidle"))
  ELSE Ok([url |-> url,
           shop_id |-> url,
           maps_link |-> IF shown.map /\ shown.link = "long"
                         THEN Some("maps.google.com") ELSE None,
           maps_short_link |-> IF shown.map /\ shown.link = "short"
                               THEN Some("maps.app.goo.gl") ELSE None])

\* line 143: reached only when lines 138-142 did not raise
CloseContext(open, i, raised) == IF raised THEN open ELSE open \ {i}

\* lines 119-135: the URLs scraped, the browser launched
InitMapLinks ==
  /\ map_urls \in {[i \in 1..n |-> i] : n \in 0..MaxShops}
  /\ map_index = 1
  /\ contexts = {}
  /\ browser = "open"
  /\ map_results = <<>>
  /\ pc = "context"
  /\ doc = CHOOSE d \in ProductDocs : TRUE
  /\ shop_data = None
  /\ record = None
  /\ violations = <<>>
  /\ text = <<>>
  /\ number = None
  /\ HarnessIdle
  /\ TasksIdle
  /\ urls = <<>>
  /\ url_index = 0
  /\ total_stats = None
  /\ printed = <<>>
  /\ saved = <<>>
  /\ limit = 0
  /\ page = 0
  /\ loads = 0
  /\ shop_urls = <<>>
  /\ first_seen = <<>>
  /\ returned = None

\* line 138, and lines 144-146 when it raises
OpenContext ==
  /\ pc = "context"
  /\ map_index <= Len(map_urls)
  /\ \E opened \in BOOLEAN :
       IF opened
       THEN /\ contexts' = contexts \cup {map_index}
            /\ pc' = "goto"
            /\ UNCHANGED map_index
       ELSE /\ map_index' = map_index + 1
            /\ UNCHANGED <<contexts, pc>>
  /\ UNCHANGED <<map_urls, browser, map_results, run_vars, harness_vars, task_vars,
                 main_vars, scrape_vars>>

\* lines 139-140, and lines 144-146 when new_page or goto raises
Navigate ==
  /\ pc = "goto"
  /\ \E loaded \in BOOLEAN :
       IF loaded
       THEN /\ pc' = "extract"
            /\ UNCHANGED <<map_index, contexts>>
       ELSE /\ contexts' = CloseContext(contexts, map_index, TRUE)
            /\ map_index' = map_index + 1
            /\ pc' = "context"
  /\ UNCHANGED <<map_urls, browser, map_results, run_vars, harness_vars, task_vars,
                 main_vars, scrape_vars>>

\* lines 141-146
ExtractAndClose ==
  /\ pc = "extract"
  /\ \E shown \in ShopPages :
       \E r \in {extract_map_links(shown, map_urls[map_index])} :
         /\ map_results' = IF r.ok THEN Append(map_results, r.val) ELSE map_results
         /\ contexts' = CloseContext(contexts, map_index, ~r.ok)
  /\ map_index' = map_index + 1
  /\ pc' = "context"
  /\ UNCHANGED <<map_urls, browser, run_vars, harness_vars, task_vars, main_vars, scrape_vars>>

\* lines 148-156: the results saved and the browser closed, which closes
\* the contexts it still holds; an unwritable file ends main before line 156
SaveAndClose ==
  /\ pc = "context"
  /\ map_index > Len(map_urls)
  /\ \E writable \in BOOLEAN :
       IF writable
       THEN /\ browser' = "closed"
            /\ contexts' = {}
            /\ pc' = "closed"
       ELSE /\ pc' = "aborted"
            /\ UNCHANGED <<browser, contexts>>
  /\ UNCHANGED <<map_urls, map_index, map_results, run_vars, harness_vars, task_vars,
                 main_vars, scrape_vars>>

NextMapLinks == OpenContext \/ Navigate \/ ExtractAndClose \/ SaveAndClose

SpecMapLinks == InitMapLinks /\ [][NextMapLinks]_vars

(***************************************************************************)
(* Concurrent calls of extract.  A call keeps raw_data, shop_data and      *)
(* missing_optional_fields in local variables, its frame; a list literal   *)
(* creates a new list object on the heap.  A task is one call: its         *)
(* document, its position ("start", "assembling" after line 54,            *)
(* "validating" after line 81, "done"), the frame and the lists it         *)
(* created, and its outcome.  Steps of different tasks interleave freely.  *)
(***************************************************************************)
NumTasks == 2

Tasks == 1..NumTasks

TaskDocs ==
  {d \in ProductDocs : Len(d.items) <= 1 /\ d.offers = <<>> /\ Len(d.categories) = 1}

\* the frame of a call if the locals were attributes of the strategy object
SharedFrame(t) == 1

\* the locals of extract belong to the call
Frame(t) == t

\* []: a new list object
NewList(h) == Len(h) + 1

\* validated_data.dict() with the metadata of lines 86-89
DictOf(d, missing_optional_fields, validation_errors) ==
  d @@ [metadata |-> [missing_optional_fields |-> missing_optional_fields,
                      validation_errors |-> validation_errors]]

InitTasks ==
  /\ tasks \in [Tasks -> [pc : {"start"}, html : TaskDocs, frame : {0}, lists : {{}},
                          outcome : {None}]]
  /\ frames = [f \in Tasks |-> [raw_data |-> None, missing_optional_fields |-> 0,
                                shop_data |-> None]]
  /\ heap = <<>>
  /\ pc = "tasks"
  /\ doc = CHOOSE d \in ProductDocs : TRUE
  /\ shop_data = None
  /\ record = None
  /\ violations = <<>>
  /\ text = <<>>
  /\ number = None
  /\ HarnessIdle
  /\ CrawlIdle

\* lines 50-54
TaskBegin(t) ==
  /\ tasks[t].pc = "start"
  /\ frames' = [frames EXCEPT ![Frame(t)].raw_data = Some(RawData(tasks[t].html)),
                              ![Frame(t)].missing_optional_fields = NewList(heap)]
  /\ heap' = Append(heap, <<>>)
  /\ tasks' = [tasks EXCEPT ![t].pc = "assembling", ![t].frame = Frame(t),
                            ![t].lists = {NewList(heap)}]
  /\ UNCHANGED <<pc, run_vars, harness_vars, crawl_vars>>

\* lines 56-81
TaskAssemble(t) ==
  /\ tasks[t].pc = "assembling"
  /\ \E r \in {Assemble(frames[tasks[t].frame].raw_data[1])} :
       IF r.ok
       THEN /\ frames' = [frames EXCEPT ![tasks[t].frame].shop_data = Some(r.val)]
            /\ tasks' = [tasks EXCEPT ![t].pc = "validating"]
       ELSE /\ tasks' = [tasks EXCEPT ![t].pc = "done", ![t].outcome = Some(Raise(<<r.exc>>))]
            /\ UNCHANGED frames
  /\ UNCHANGED <<heap, pc, run_vars, harness_vars, crawl_vars>>

\* lines 84-96
TaskValidate(t) ==
  /\ tasks[t].pc = "validating"
  /\ heap' = Append(heap, <<>>)
  /\ \E errors \in {ShopData(frames[tasks[t].frame].shop_data[1])} :
       tasks' =
         [tasks EXCEPT
            ![t].pc = "done",
            ![t].lists = @ \cup {NewList(heap)},
            ![t].outcome =
              IF errors # <<>> THEN Some(Raise(errors))
              ELSE Some(Ok(DictOf(frames[tasks[t].frame].shop_data[1],
                                  heap[frames[tasks[t].frame].missing_optional_fields],
                                  <<>>)))]
  /\ UNCHANGED <<frames, pc, run_vars, harness_vars, crawl_vars>>

NextTasks == \E t \in Tasks : TaskBegin(t) \/ TaskAssemble(t) \/ TaskValidate(t)

SpecTasks == InitTasks /\ [][NextTasks]_vars

(***************************************************************************)
(* Vocabulary of the properties.                                           *)
(***************************************************************************)
Done == pc \in {"returned", "raised"}

Returned == record # None

Rejected == pc = "raised" /\ record = None

RequiredFields ==
  {"name", "description", "rating", "images.main", "products.categories",
   "products.items", "products.item.name", "location.area", "location.map"}

LacksName(container) == container.name = <<>>

\* the query of required field f matches no node of document d
NoMatch(f, d) ==
  CASE f = "name" -> d.name = None
    [] f = "description" -> d.description = None
    [] f = "rating" -> RawData(d).rating = <<>>
    [] f = "images.main" -> d.mainImgs = <<>>
    [] f = "products.categories" -> d.categories = <<>>
    [] f = "products.items" -> d.items = <<>>
    [] f = "products.item.name" -> \E i \in 1..Len(d.items) : LacksName(d.items[i])
    [] f = "location.area" -> d.area = None
    [] f = "location.map" -> d.map = <<>>

\* the field paths an error names, read generously: the field a message
\* interpolates, or the field a fixed message is about
NamedFields(e) ==
  CASE e.msg \in {"Required field is missing", "Required image field is missing"} -> {e.field}
    [] e.msg = "Rating is required" -> {"rating"}
    [] e.msg = "Map element is required" -> {"location.map"}
    [] e.msg = "Main image is required" -> {"images.main"}
    [] e.msg = "At least one product category is required" -> {"products.categories"}
    [] e.msg = "At least one product item is required" -> {"products.items"}
    [] e.msg = "Location area is required" -> {"location.area"}
    [] e.msg = "Product name cannot be empty" -> {"products.item.name"}
    [] e.type = "ValidationError" /\ e.field \in {"rating", "reviews_count"} -> {e.field}
    [] OTHER -> {}

ViolationNames(f) == \E i \in 1..Len(violations) : f \in NamedFields(violations[i])

TextPresent(o) == o # None /\ strip(o[1]) # <<>>

HasName(container) == container.name # <<>> /\ strip(container.name[1]) # <<>>

CoordinatesParse(node) ==
  (Truthy(node.data_lat) /\ Truthy(node.data_lng))
    => (ParseFloat(node.data_lat[1]) # None /\ ParseFloat(node.data_lng[1]) # None)

BasicsWellFormed(d) ==
  /\ TextPresent(d.name) /\ TextPresent(d.description) /\ TextPresent(d.area)
  /\ d.categories # <<>>

RatingWellFormed(d) == RawData(d).rating # <<>>

MainWellFormed(d) == d.mainImgs # <<>> /\ HasSrc(d.mainImgs[1])

ItemsWellFormed(d) == d.items # <<>> /\ \A i \in 1..Len(d.items) : HasName(d.items[i])

MapWellFormed(d) == d.map # <<>> /\ CoordinatesParse(d.map[1])

InRange(rating) ==
  FloatLe(FloatOfInt(0), rating) /\ FloatLe(rating, FloatOfInt(5))

ItemNamed(item) == item.name # <<>>

(***************************************************************************)
(* C1: extract ends in one of two outcomes, a validated record and no      *)
(* violation, or no record and at least one violation; a record never      *)
(* breaks a required-field or cross-field invariant; and a run that has    *)
(* not ended stands before a step whose guard holds.                       *)
(***************************************************************************)
RequiredHold(r) ==
  /\ r.name # <<>> /\ r.description # <<>> /\ InRange(r.rating)
  /\ r.images.main # ""
  /\ r.products.categories # <<>> /\ r.products.items # <<>>
  /\ \A i \in 1..Len(r.products.items) : ItemNamed(r.products.items[i])
  /\ r.location.area # <<>>

C1_RecordOrViolations ==
  /\ pc = "returned" => (record # None /\ violations = <<>> /\ RequiredHold(record[1]))
  /\ pc = "raised" => (record = None /\ violations # <<>>)
  /\ ~Done => /\ record = None /\ violations = <<>>
              /\ pc \in {"start", "assembled"}
              /\ pc = "assembled" => shop_data # None

\* the validation rejects an assembled record for two fields at once
C1_Witness == pc = "raised" /\ shop_data # None /\ Len(violations) >= 2

(***************************************************************************)
(* C2: for every required selector, if its query matches no node then      *)
(* extraction rejects the record and a reported violation names the field. *)
(***************************************************************************)
C2_MissingRequiredNamed ==
  Done => \A f \in RequiredFields : NoMatch(f, doc) => (Rejected /\ ViolationNames(f))

(***************************************************************************)
(* C3: when two or more required fields of a document are missing, the     *)
(* outcome lists a violation for each of them.                             *)
(***************************************************************************)
MissingRequired(d) == {f \in RequiredFields : NoMatch(f, d)}

C3_EveryFailureListed ==
  (Done /\ Cardinality(MissingRequired(doc)) >= 2)
    => \A f \in MissingRequired(doc) : ViolationNames(f)

(***************************************************************************)
(* C4: every returned record has a main image, at least one category and   *)
(* one item, an area, the map of the document, a rating within 0..5 and a  *)
(* reviews count that is null or not negative.                             *)
(***************************************************************************)
C4_RecordInvariants ==
  Returned =>
    /\ record[1].images.main # ""
    /\ record[1].products.categories # <<>>
    /\ record[1].products.items # <<>>
    /\ record[1].location.area # <<>>
    /\ doc.map # <<>> /\ record[1].location.map.element = doc.map[1]
    /\ InRange(record[1].rating)
    /\ record[1].reviews_count # None => record[1].reviews_count[1] >= 0

C4_Witness ==
  /\ Returned
  /\ record[1].reviews_count = Some(12)
  /\ record[1].location.map.coordinates # None

(***************************************************************************)
(* C5: a container without its item name is left out of products.items and *)
(* recorded as one failure, while the containers that have a name are      *)
(* assembled in document order.                                            *)
(***************************************************************************)
NamesOf(containers) == [i \in 1..Len(containers) |-> strip(containers[i].name[1])]

ItemNames(items) == [i \in 1..Len(items) |-> items[i].name]

C5_ItemFailuresIsolated ==
  (/\ Done
   /\ BasicsWellFormed(doc) /\ RatingWellFormed(doc) /\ MainWellFormed(doc)
   /\ MapWellFormed(doc)
   /\ SelectSeq(doc.items, HasName) # <<>>)
    => /\ Returned
       /\ ItemNames(record[1].products.items)
            = NamesOf(SelectSeq(doc.items, HasName))
       /\ Len(record[1].metadata.validation_errors)
            = Len(doc.items) - Len(SelectSeq(doc.items, HasName))

(***************************************************************************)
(* C6: the coordinates are the pair of floats when data-lat and data-lng   *)
(* are both present and parse, and null otherwise, without the rest of the *)
(* extraction being aborted.                                               *)
(***************************************************************************)
BothParse(node) ==
  /\ Truthy(node.data_lat) /\ Truthy(node.data_lng)
  /\ ParseFloat(node.data_lat[1]) # None /\ ParseFloat(node.data_lng[1]) # None

ExpectedCoordinates(node) ==
  IF BothParse(node)
  THEN Some([lat |-> ParseFloat(node.data_lat[1])[1],
             lng |-> ParseFloat(node.data_lng[1])[1]])
  ELSE None

C6_CoordinatesPairOrNull ==
  (/\ Done
   /\ BasicsWellFormed(doc) /\ RatingWellFormed(doc) /\ MainWellFormed(doc)
   /\ ItemsWellFormed(doc)
   /\ doc.map # <<>>)
    => /\ Returned
       /\ record[1].location.map.coordinates = ExpectedCoordinates(doc.map[1])

(***************************************************************************)
(* C7: a document whose only defect is that no main-image node matches     *)
(* gives no record and exactly one violation, which names images.main.     *)
(***************************************************************************)
OnlyMainImageMissing(d) ==
  /\ d.mainImgs = <<>>
  /\ BasicsWellFormed(d) /\ RatingWellFormed(d) /\ ItemsWellFormed(d)
  /\ MapWellFormed(d)

C7_MissingMainImage ==
  (Done /\ OnlyMainImageMissing(doc))
    => /\ Rejected
       /\ Len(violations) = 1
       /\ "images.main" \in NamedFields(violations[1])

C7_Witness == Rejected /\ OnlyMainImageMissing(doc) /\ doc.reviews # <<>>

(***************************************************************************)
(* C8: a rating whose node is matched but whose value is not numeric makes *)
(* extraction reject the record.                                           *)
(***************************************************************************)
RatingText(img) == IF img.alt = None THEN <<>> ELSE img.alt[1]

NonNumericRating(d) ==
  /\ RawData(d).rating # <<>>
  /\ ParseFloat(RatingText(RawData(d).rating[1])) = None

C8_NonNumericRatingRejected == (Done /\ NonNumericRating(doc)) => Rejected

(***************************************************************************)
(* C9: a document that carries a numeric rating r within 0..5 in the alt   *)
(* text of a rating image and is well-formed elsewhere gives a record      *)
(* whose rating is r.                                                      *)
(***************************************************************************)
CarriedRatings(d) ==
  {ParseFloat(RatingText(d.centredImgs[i]))[1] :
     i \in {j \in 1..Len(d.centredImgs) :
              ParseFloat(RatingText(d.centredImgs[j])) # None}}

C9_RatingCarriedOver ==
  (/\ Done
   /\ BasicsWellFormed(doc) /\ MainWellFormed(doc) /\ ItemsWellFormed(doc)
   /\ MapWellFormed(doc))
    => \A r \in CarriedRatings(doc) :
         InRange(r) => (Returned /\ record[1].rating = r)

(***************************************************************************)
(* C10: the number coerced from a text that holds a digit is the number    *)
(* its digit characters form when read in order, everything else dropped:  *)
(* "$1200" gives 1200 and "12.50" gives 1250.                              *)
(***************************************************************************)
RECURSIVE ReadDigits(_, _)
ReadDigits(t, n) ==
  IF t = <<>> THEN n
  ELSE ReadDigits(Tail(t), IF isdigit(Head(t)) THEN 10 * n + DigitVal(Head(t)) ELSE n)

HasDigit(t) == \E i \in 1..Len(t) : isdigit(t[i])

PriceText(container) == container.price[1]

DigitlessPrice(container) == container.price # <<>> /\ ~HasDigit(PriceText(container))

C11_NoDigitsNullOrFailure ==
  /\ (Returned /\ doc.reviews # <<>> /\ ~HasDigit(doc.reviews[1]))
       => record[1].reviews_count = None
  /\ Returned => \A i \in 1..Len(doc.items) :
       DigitlessPrice(doc.items[i]) => record[1].products.items[i].price = None
  /\ Rejected => ~ViolationNames("reviews_count")
  /\ (Done /\ RawData(doc).rating # <<>>
           /\ ~HasDigit(RatingText(RawData(doc).rating[1]))) => Rejected

(***************************************************************************)
(* C12: special_offers, products.categories and the category of every item *)
(* hold the trimmed texts of the matched nodes in document order, the      *)
(* texts that are empty after trimming left out; none holds an empty text. *)
(***************************************************************************)
RECURSIVE TrimmedNonEmpty(_)
TrimmedNonEmpty(texts) ==
  IF texts = <<>> THEN <<>>
  ELSE (IF strip(Head(texts)) = <<>> THEN <<>> ELSE <<strip(Head(texts))>>)
       \o TrimmedNonEmpty(Tail(texts))

NoEmptyText(texts) == \A i \in 1..Len(texts) : texts[i] # <<>>

C12_ListsTrimmedNonEmpty ==
  Returned =>
    /\ record[1].special_offers = TrimmedNonEmpty(doc.offers)
    /\ record[1].products.categories = TrimmedNonEmpty(doc.categories)
    /\ \A i \in 1..Len(record[1].products.items) :
         record[1].products.items[i].category = TrimmedNonEmpty(doc.items[i].category)
    /\ NoEmptyText(record[1].special_offers)
    /\ NoEmptyText(record[1].products.categories)
    /\ \A i \in 1..Len(record[1].products.items) :
         NoEmptyText(record[1].products.items[i].category)

(***************************************************************************)
(* C13: metadata.missing_optional_fields of a returned record lists        *)
(* exactly the optional fields whose value is null or empty; it holds      *)
(* reviews_count when the reviews-count query matched nothing.             *)
(***************************************************************************)
MissingOptional(r) ==
  {f \in {"reviews_count"} : r.reviews_count = None}
  \cup {f \in {"special_offers"} : r.special_offers = <<>>}
  \cup {f \in {"images.gallery"} : r.images.gallery = <<>>}
  \cup {f \in {"contact"} : r.contact = None}

Listed(list) == {list[i] : i \in 1..Len(list)}

C13_MissingOptionalListed ==
  Returned =>
    /\ Listed(record[1].metadata.missing_optional_fields) = MissingOptional(record[1])
    /\ doc.reviews = <<>>
         => "reviews_count" \in Listed(record[1].metadata.missing_optional_fields)

(***************************************************************************)
(* C14: verified and delivery_service of a returned record are the same    *)
(* boolean, true exactly when the one query both share matches a node.     *)
(***************************************************************************)
C14_VerifiedEqualsDelivery ==
  Returned =>
    /\ record[1].verified = record[1].delivery_service
    /\ record[1].verified = (doc.blueDivs # <<>>)

C14_Witness ==
  Returned /\ doc.blueDivs # <<>> /\ record[1].verified /\ record[1].delivery_service

(***************************************************************************)
(* Vocabulary of the harness properties.                                   *)
(***************************************************************************)
Reported == pc = "reported" /\ report # None

\* the entry of the table a path of the report names
EntryOf(path) == CHOOSE i \in Entries : Path(SELECTORS_TO_TEST[i]) = path

\* the predicate of entry e was false of, or raised on, the first node
\* matched on page s
PredicateFailed(s, e) ==
  /\ e.validation \notin {"none", "holds"}
  /\ s.count[e.selector] > 0
  /\ CheckOf(e) \in s.failing \cup s.raising

(***************************************************************************)
(* C15: a harness run never leaves with an exception and never stops       *)
(* early: before each step the results hold the entries handled so far and *)
(* the step's guard holds, and the report holds one result for every entry *)
(* of the table, whatever was not found, failed or raised.                 *)
(***************************************************************************)
C15_ReportComplete ==
  /\ pc \in {"query", "validate", "process", "reported"}
  /\ pc \in {"query", "validate"} => (entry \in Entries /\ Len(results) = entry - 1)
  /\ pc = "query" => result = None
  /\ pc = "validate" => result # None
  /\ pc \in {"process", "reported"} => Len(results) = Len(SELECTORS_TO_TEST)
  /\ pc # "reported" => report = None
  /\ pc = "reported" =>
       /\ report # None
       /\ Len(report[1].results) = Len(SELECTORS_TO_TEST)
       /\ \A i \in Entries :
            /\ report[1].results[i].is_required = SELECTORS_TO_TEST[i].required
            /\ report[1].results[i].count = soup.count[SELECTORS_TO_TEST[i].selector]

\* a complete report of a page on which every predicate raised
C15_Witness ==
  /\ Reported
  /\ soup.raising = Checks
  /\ Len(report[1].results) = Len(SELECTORS_TO_TEST)
  /\ \A i \in Entries : PredicateFailed(soup, SELECTORS_TO_TEST[i])
       => report[1].results[i].validation_errors # <<>>

(***************************************************************************)
(* C16: a result of validate_selector holds at most three samples, and its *)
(* count is the number of nodes the selector matched.                      *)
(***************************************************************************)
WithinSampleLimit(r, matched) == Len(r.samples) <= 3 /\ r.count = matched

C16_AtMostThreeSamples ==
  /\ result # None
       => WithinSampleLimit(result[1], soup.count[SELECTORS_TO_TEST[entry].selector])
  /\ \A i \in 1..Len(results) :
       WithinSampleLimit(results[i], soup.count[SELECTORS_TO_TEST[i].selector])

(***************************************************************************)
(* C17: in the report, a required entry that matched nothing or whose      *)
(* predicate failed is recorded as an error, and an optional entry whose   *)
(* predicate failed, raising included, is recorded as a warning and        *)
(* carries no error.                                                       *)
(***************************************************************************)
RequiredAsError(rep, e, r, s) ==
  /\ Path(e) \in Listed(rep.missing_required)
  /\ PredicateFailed(s, e)
       => /\ r.validation_errors # <<>>
          /\ Listed(r.validation_errors) \subseteq Listed(rep.validation_errors)

OptionalAsWarning(rep, r) ==
  /\ r.validation_warnings # <<>>
  /\ Listed(r.validation_warnings) \subseteq Listed(rep.validation_warnings)
  /\ r.validation_errors = <<>>

ClassifiedByFlag(rep, e, r, s) ==
  /\ (e.required /\ (s.count[e.selector] = 0 \/ PredicateFailed(s, e)))
       => RequiredAsError(rep, e, r, s)
  /\ (~e.required /\ PredicateFailed(s, e)) => OptionalAsWarning(rep, r)

C17_ErrorOrWarningByFlag ==
  Reported => \A i \in Entries :
    ClassifiedByFlag(report[1], SELECTORS_TO_TEST[i], report[1].results[i], soup)

(***************************************************************************)
(* C18: every entry goes from not run to queried, found or not found, and  *)
(* then to one final class.  The predicate of an entry is evaluated only   *)
(* when its query has run and found a node, and for every such entry that  *)
(* has a predicate; an entry that is not finished has no result; in the    *)
(* report every entry has exactly one of the classes Valid, Invalid and    *)
(* WarningOnly.                                                            *)
(***************************************************************************)
Finished(i) == i <= Len(results)

HasClass(r, class) ==
  CASE class = "Invalid" -> r.validation_errors # <<>> \/ (r.is_required /\ ~r.found)
    [] class = "WarningOnly" ->
         /\ r.validation_warnings # <<>> /\ r.validation_errors = <<>>
         /\ ~(r.is_required /\ ~r.found)
    [] class = "Valid" ->
         /\ r.validation_warnings = <<>> /\ r.validation_errors = <<>>
         /\ ~(r.is_required /\ ~r.found)

ClassesOf(r) == {class \in {"Valid", "Invalid", "WarningOnly"} : HasClass(r, class)}

C18_FieldPhases ==
  /\ \A i \in evaluated : Finished(i) /\ results[i].found
  /\ \A i \in Entries :
       (Finished(i) /\ results[i].found /\ SELECTORS_TO_TEST[i].validation # "none")
         => i \in evaluated
  /\ \A i \in Entries : (pc \in {"query", "validate"} /\ i >= entry) => ~Finished(i)
  /\ pc = "validate" => result[1].found = (soup.count[SELECTORS_TO_TEST[entry].selector] > 0)
  /\ Reported => \A i \in Entries :
       Finished(i) /\ Cardinality(ClassesOf(report[1].results[i])) = 1

\* a report with an entry that was not found and an evaluated entry that
\* ended with a warning only
C18_Witness ==
  /\ Reported
  /\ \E i \in Entries : ~report[1].results[i].found /\ i \notin evaluated
  /\ \E i \in evaluated : ClassesOf(report[1].results[i]) = {"WarningOnly"}

(***************************************************************************)
(* C19: whatever the interleaving, a call of extract ends with the record  *)
(* or the violations its document gives when the call runs alone, and the  *)
(* lists it created are its own: no other call holds them and they hold    *)
(* what the call put in them, which is nothing.                            *)
(***************************************************************************)
\* the outcome of extract run alone on document d
AloneValidated(d) ==
  IF ShopData(d) # <<>> THEN Raise(ShopData(d)) ELSE Ok(Dict(d))

AloneAssembled(r) == IF r.ok THEN AloneValidated(r.val) ELSE Raise(<<r.exc>>)

Alone(d) == AloneAssembled(Assemble(RawData(d)))

C19_RunsIndependent ==
  /\ \A t \in DOMAIN tasks :
       tasks[t].pc = "done" => tasks[t].outcome = Some(Alone(tasks[t].html))
  /\ \A t, u \in DOMAIN tasks : t # u => tasks[t].lists \cap tasks[u].lists = {}
  /\ \A i \in 1..Len(heap) : heap[i] = <<>>

\* task 2 began first and is still running when task 1, begun after it, has
\* returned its record; the documents of the two give different outcomes
C19_Witness ==
  /\ tasks # <<>>
  /\ tasks[1].pc = "done" /\ tasks[1].outcome[1].ok
  /\ tasks[2].pc = "validating"
  /\ \E i \in tasks[1].lists : \E j \in tasks[2].lists : j < i
  /\ Alone(tasks[1].html) # Alone(tasks[2].html)

(***************************************************************************)
(* C20: missing_required of the report names exactly the required entries  *)
(* whose selector matched nothing or whose result carries validation       *)
(* errors, each once, in the order of the table, and no optional entry.    *)
(***************************************************************************)
ExpectedMissing(s, rs) ==
  {i \in Entries :
     /\ SELECTORS_TO_TEST[i].required
     /\ (s.count[SELECTORS_TO_TEST[i].selector] = 0 \/ rs[i].validation_errors # <<>>)}

InTableOrder(paths) ==
  \A a, b \in 1..Len(paths) : a < b => EntryOf(paths[a]) < EntryOf(paths[b])

C20_MissingRequiredExact ==
  Reported =>
    /\ Listed(report[1].missing_required)
         = {Path(SELECTORS_TO_TEST[i]) : i \in ExpectedMissing(soup, report[1].results)}
    /\ InTableOrder(report[1].missing_required)
    /\ Cardinality(Listed(report[1].missing_required)) = Len(report[1].missing_required)
    /\ \A a \in 1..Len(report[1].missing_required) :
         SELECTORS_TO_TEST[EntryOf(report[1].missing_required[a])].required

\* two required entries are missing, one for its errors, while an optional
\* entry found nothing
C20_Witness ==
  /\ Reported
  /\ Len(report[1].missing_required) >= 2
  /\ \E i \in Entries :
       /\ report[1].results[i].is_required /\ report[1].results[i].found
       /\ Path(SELECTORS_TO_TEST[i]) \in Listed(report[1].missing_required)
  /\ \E i \in Entries :
       ~report[1].results[i].is_required /\ ~report[1].results[i].found

(***************************************************************************)
(* The harness's main loop.                                                *)
(***************************************************************************)
\* the required entries of the table whose row is not printed as missing
RequiredRowsNotMissing(rows) ==
  Cardinality({i \in DOMAIN rows : rows[i].required /\ rows[i].style # "red"})

\* the required entries of the table that missing_required does not list
RequiredNotListed(rep) ==
  Cardinality({i \in Entries : /\ SELECTORS_TO_TEST[i].required
                               /\ Path(SELECTORS_TO_TEST[i]) \notin Listed(rep.missing_required)})

RECURSIVE SumNotListed(_, _)
SumNotListed(reports, i) ==
  IF i > Len(reports) THEN 0
  ELSE RequiredNotListed(reports[i]) + SumNotListed(reports, i + 1)

(***************************************************************************)
(* C21: the "required fields present" figure that the harness prints for a *)
(* report and adds to total_required_present is the number of required     *)
(* entries of the table that are not in missing_required, and is never     *)
(* negative.                                                               *)
(***************************************************************************)
C21_PresentFigureCounts ==
  /\ \A i \in 1..Len(printed) :
       /\ printed[i].required_present >= 0
       /\ printed[i].required_present = RequiredRowsNotMissing(printed[i].rows)
  /\ total_stats # None =>
       /\ total_stats[1].total_required_present >= 0
       /\ total_stats[1].total_required_present = SumNotListed(saved, 1)

(***************************************************************************)
(* C22: every URL the main loop has passed is counted once, as a success   *)
(* or as a failure; when the loop has processed all the URLs,              *)
(* successful_validations + failed_validations equals total_urls.          *)
(***************************************************************************)
Counted == total_stats[1].successful_validations + total_stats[1].failed_validations

C22_EveryUrlCountedOnce ==
  total_stats # None =>
    /\ Counted = url_index - 1
    /\ total_stats[1].successful_validations = Len(saved)
    /\ pc \in {"stats", "finished"} =>
         (Counted = total_stats[1].total_urls /\ total_stats[1].total_urls = Len(urls))

\* a finished run with a success, a fetch that failed and a report that
\* could not be written
C22_Witness ==
  /\ pc = "finished"
  /\ total_stats[1].successful_validations = 1
  /\ total_stats[1].failed_validations = 2
  /\ Len(printed) = 2

(***************************************************************************)
(* scrape_shop_urls.                                                       *)
(***************************************************************************)
ScrapeEnded == pc \in {"returned", "raised"}

(***************************************************************************)
(* C23: scrape_shop_urls never loads more than 20 listing pages, whatever  *)
(* the pages show, and every call of it ends.                              *)
(***************************************************************************)
C23_TerminatesWithin20Pages == [](loads <= 20) /\ <>ScrapeEnded

\* twenty pages were loaded without reaching the limit, and the list was
\* returned
C23_Witness == pc = "returned" /\ loads = 20 /\ Len(shop_urls) < limit

\* rank a of a first sighting lies before rank b
Before(a, b) == a[1] < b[1] \/ (a[1] = b[1] /\ a[2] < b[2])

(***************************************************************************)
(* C24: the list scrape_shop_urls returns has at most limit entries, no    *)
(* entry twice, and holds the URLs in the order of their first sighting:   *)
(* it is the first sighted URLs, every URL left out was sighted later and  *)
(* only because the limit was reached.                                     *)
(***************************************************************************)
C24_ReturnedBoundedUniqueOrdered ==
  returned # None =>
    /\ Len(returned[1]) <= limit
    /\ \A i, j \in 1..Len(returned[1]) :
         i < j => /\ returned[1][i] # returned[1][j]
                  /\ Before(first_seen[returned[1][i]], first_seen[returned[1][j]])
    /\ Listed(returned[1]) \subseteq DOMAIN first_seen
    /\ \A u \in DOMAIN first_seen \ Listed(returned[1]) :
         /\ Len(returned[1]) = limit
         /\ \A i \in 1..Len(returned[1]) : Before(first_seen[returned[1][i]], first_seen[u])

\* two URLs returned, the second first sighted on a later page than the
\* first and after the first had been shown again; a third URL was cut off
C24_Witness ==
  /\ returned # None
  /\ Len(returned[1]) = 2
  /\ first_seen[returned[1][2]][1] > first_seen[returned[1][1]][1] + 1
  /\ Cardinality(DOMAIN first_seen) = 3

(***************************************************************************)
(* C25: in the map-link scraper's main loop every context opened for a URL *)
(* is closed before the next URL is taken up, also when navigation or      *)
(* extract_map_links raised for it, and no context is open when the run    *)
(* has ended.                                                              *)
(***************************************************************************)
C25_ContextsClosedPerUrl ==
  /\ pc = "context" => contexts = {}
  /\ pc \in {"goto", "extract"} => contexts = {map_index}
  /\ pc \in {"closed", "aborted"} => contexts = {}
====
